---- MODULE Spec2Model ----
(***************************************************************************)
(* Model of sparrow/labeling/__init__.py: the dimension rescaler           *)
(* _image_dimensions_rescale, the image adapter _resize_img and the        *)
(* component bridge st_sparrow_labeling.                                   *)
(*                                                                         *)
(* Python's "/" on two ints and "*" on an int and a float are IEEE-754     *)
(* binary64 operations (correctly rounded, ties to even); int() truncates. *)
(* They are modelled bit by bit: a float is <<bits, exp>>, bits the 53-bit *)
(* significand (most significant bit first), and its value is              *)
(* bits * 2^exp.  Arguments are pixel counts, drawn from the naturals.     *)
(***************************************************************************)
EXTENDS Integers, Sequences, FiniteSets, TLC

\* ------------------------------------------------------------------------
\* Bounds of the model
\* ------------------------------------------------------------------------
\* arguments of a direct call of _image_dimensions_rescale
MaxCanvasWidth == 15
MaxDocWidth == 49
MaxDocHeight == 11
\* canvas_width, doc_width and doc_height of a call of st_sparrow_labeling
MaxCallDim == 2
\* sides of a background image
MaxImageSide == 2
\* selectIndex values the rendering surface reports
MaxSelectIndex == 0

\* ------------------------------------------------------------------------
\* binary64 arithmetic
\* ------------------------------------------------------------------------
\* significand width of a CPython float (C double)
Precision == 53
\* digits multiplied at a time, so that every product stays below 2^31
LimbBits == 18


Pow2(n) == 2 ^ n

RECURSIVE BitLength(_)
BitLength(n) == IF n = 0 THEN 0 ELSE 1 + BitLength(n \div 2)

\* the natural whose binary digits are bits
RECURSIVE BitsToInt(_)
BitsToInt(bits) ==
    IF Len(bits) = 0 THEN 0
    ELSE IF Len(bits) = 1 THEN bits[1]
    ELSE LET half == Len(bits) \div 2
         IN  BitsToInt(SubSeq(bits, 1, half)) * Pow2(Len(bits) - half)
             + BitsToInt(SubSeq(bits, half + 1, Len(bits)))

ZeroBits == [i \in 1..Precision |-> 0]

FloatZero == <<ZeroBits, 0>>

IsZero(f) == f[1] = ZeroBits

\* bits + 1; one digit longer when every digit of bits is 1
Increment(bits) ==
    IF \A i \in 1..Len(bits) : bits[i] = 1
    THEN [i \in 1..(Len(bits) + 1) |-> IF i = 1 THEN 1 ELSE 0]
    ELSE LET k == CHOOSE j \in 1..Len(bits) :
                      /\ bits[j] = 0
                      /\ \A i \in (j + 1)..Len(bits) : bits[i] = 1
         IN  [i \in 1..Len(bits) |->
                 IF i < k THEN bits[i] ELSE IF i = k THEN 1 ELSE 0]

\* Round a Precision-bit significand given how the discarded part compares
\* with half a unit in the last place (-1 below, 0 tie, 1 above).
RoundHalfEven(bits, exp, cmp) ==
    IF cmp > 0 \/ (cmp = 0 /\ bits[Precision] = 1)
    THEN LET up == Increment(bits)
         IN  IF Len(up) > Precision
             THEN <<SubSeq(up, 1, Precision), exp + 1>>
             ELSE <<up, exp>>
    ELSE <<bits, exp>>

\* the w binary digits of v < 2^w
FixedBits(v, w) == [i \in 1..w |-> (v \div Pow2(w - i)) % 2]

\* Long division of num by den, for den <= num < 2*den and den < 2^13: the
\* first Precision binary digits of num/den, and the remainder they leave
\* (the discarded part of the quotient is rest/den units in the last place)
LongDivision(num, den) ==
    LET last == Precision - 1 - 2 * LimbBits
        t1 == (num % den) * Pow2(LimbBits)
        t2 == (t1 % den) * Pow2(LimbBits)
        t3 == (t2 % den) * Pow2(last)
    IN  [digits |-> FixedBits(num \div den, 1)
                    \o FixedBits(t1 \div den, LimbBits)
                    \o FixedBits(t2 \div den, LimbBits)
                    \o FixedBits(t3 \div den, last),
         rest |-> t3 % den]

\* a / b for naturals a and b > 0: the correctly rounded quotient
TrueDiv(a, b) ==
    IF a = 0 THEN FloatZero
    ELSE LET d    == BitLength(a) - BitLength(b)
             n0   == IF d >= 0 THEN a ELSE a * Pow2(-d)
             den  == IF d >= 0 THEN b * Pow2(d) ELSE b
             low  == n0 < den
             num  == IF low THEN 2 * n0 ELSE n0
             shift == IF low THEN d - 1 ELSE d
             q    == LongDivision(num, den)
             cmp  == IF 2 * q.rest > den THEN 1
                     ELSE IF 2 * q.rest = den THEN 0 ELSE -1
         IN  RoundHalfEven(q.digits, shift - (Precision - 1), cmp)

\* the value of the c-th group of LimbBits digits of bits, counted from the
\* least significant
Limb(bits, c) ==
    LET last  == Len(bits) - c * LimbBits
        first == IF last > LimbBits THEN last - LimbBits + 1 ELSE 1
    IN  BitsToInt(SubSeq(bits, first, last))

\* the digits of bits * n, exactly, for a Precision-digit bits and n < 2^13
MulBits(bits, n) ==
    LET t0 == Limb(bits, 0) * n
        t1 == Limb(bits, 1) * n + t0 \div Pow2(LimbBits)
        t2 == Limb(bits, 2) * n + t1 \div Pow2(LimbBits)
    IN  FixedBits(t2, BitLength(t2))
        \o FixedBits(t1 % Pow2(LimbBits), LimbBits)
        \o FixedBits(t0 % Pow2(LimbBits), LimbBits)

\* n * f for a natural n (exactly a float) and a float f: the exact product
\* rounded to Precision bits
IntTimesFloat(n, f) ==
    IF n = 0 \/ IsZero(f) THEN FloatZero
    ELSE LET p     == MulBits(f[1], n)
             extra == Len(p) - Precision
             guard == p[Precision + 1]
             sticky == \E i \in (Precision + 2)..Len(p) : p[i] = 1
             cmp   == IF guard = 0 THEN -1 ELSE IF sticky THEN 1 ELSE 0
         IN  IF extra = 0 THEN <<p, f[2]>>
             ELSE RoundHalfEven(SubSeq(p, 1, Precision), f[2] + extra, cmp)

\* int(f) replaced by rounding to the nearest integer
FloatToInt_nearest(f) ==
    IF f[2] >= 0 THEN BitsToInt(f[1]) * Pow2(f[2])
    ELSE IF Precision + f[2] < 0 THEN 0
    ELSE BitsToInt(SubSeq(f[1], 1, Precision + f[2]))
         + f[1][Precision + f[2] + 1]

\* int(f) for a float f >= 0: truncation
FloatToInt(f) ==
    IF f[2] >= 0 THEN BitsToInt(f[1]) * Pow2(f[2])
    ELSE IF Precision + f[2] <= 0 THEN 0
    ELSE BitsToInt(SubSeq(f[1], 1, Precision + f[2]))

\* ------------------------------------------------------------------------
\* Results of a Python call
\* ------------------------------------------------------------------------
Returns(v) == [raised |-> "", value |-> <<v>>]

Raises(e) == [raised |-> e, value |-> <<>>]

\* the pair returned in the order (width, height)
Rescaled_swapped(canvas_width, doc_width, doc_height) ==
    LET w_ratio == TrueDiv(canvas_width, doc_width)
        h == FloatToInt(IntTimesFloat(doc_height, w_ratio))
        w == IF canvas_width >= doc_width
             THEN canvas_width
             ELSE FloatToInt(IntTimesFloat(doc_width, w_ratio))
    IN  <<w, h>>

\* the body of _image_dimensions_rescale once the division has succeeded
Rescaled(canvas_width, doc_width, doc_height) ==
    LET w_ratio == TrueDiv(canvas_width, doc_width)
        h == FloatToInt(IntTimesFloat(doc_height, w_ratio))
        w == IF canvas_width >= doc_width
             THEN canvas_width
             ELSE FloatToInt(IntTimesFloat(doc_width, w_ratio))
    IN  <<h, w>>

\* a zero doc_width answered with an empty canvas instead of the division
_image_dimensions_rescale_guarded(canvas_width, doc_width, doc_height) ==
    IF doc_width = 0 THEN Returns(<<0, 0>>)
    ELSE Returns(Rescaled(canvas_width, doc_width, doc_height))

\* def _image_dimensions_rescale(canvas_width, doc_width, doc_height)
_image_dimensions_rescale(canvas_width, doc_width, doc_height) ==
    IF doc_width = 0 THEN Raises("ZeroDivisionError")
    ELSE Returns(Rescaled(canvas_width, doc_width, doc_height))

\* def _resize_img(img, new_height, new_width); Image.resize refuses a
\* target with a side below 1 ("height and width must be > 0")
_resize_img(img, new_height, new_width) ==
    IF img.height = 0 \/ img.width = 0 THEN Raises("ZeroDivisionError")
    ELSE LET h_ratio == TrueDiv(new_height, img.height)
             w_ratio == TrueDiv(new_width, img.width)
             w == FloatToInt(IntTimesFloat(img.width, w_ratio))
             h == FloatToInt(IntTimesFloat(img.height, h_ratio))
         IN  IF w < 1 \/ h < 1 THEN Raises("ValueError")
             ELSE Returns([height |-> h, width |-> w])

\* ------------------------------------------------------------------------
\* Python values: None is <<>>, any other optional value v is <<v>>
\* ------------------------------------------------------------------------
None == <<>>

Some(v) == <<v>>

\* a str is the sequence of its characters
EmptyStr == <<>>

\* class CanvasResult
CanvasResult(rects_data, current_rect_index) ==
    [rects_data |-> rects_data, current_rect_index |-> current_rect_index]

\* DataProcessor.prepare_canvas_data: the conversion applied to its arguments
prepare_canvas_data(initial_rects, bg_color, doc_height, doc_width, h, w) ==
    [conversion |-> "prepare_canvas_data",
     of |-> <<initial_rects, bg_color, doc_height, doc_width, h, w>>]

\* DataProcessor.prepare_rect_data: the conversion applied to its arguments
prepare_rect_data(raw, initial_rects, doc_height, doc_width, h, w) ==
    [conversion |-> "prepare_rect_data",
     of |-> <<raw, initial_rects, doc_height, doc_width, h, w>>]

\* st_image.image_to_url: a URL of the host's file manager, with or without
\* a leading "/"
ImageUrls == {<<"/", "m", "e", "d", "i", "a">>, <<"m", "e", "d", "i", "a">>}

\* drawing_mode: {'freedraw', 'transform', 'line', 'rect', 'circle', 'point', 'polygon'}
DrawingModes ==
    {"freedraw", "transform", "line", "rect", "circle", "point", "polygon"}

BackgroundColors == {EmptyStr, <<"#", "f", "f", "f">>}

BackgroundImages ==
    {None} \cup {Some([height |-> h, width |-> w]) :
                     h \in 1..MaxImageSide, w \in 1..MaxImageSide}

InitialRects == {None, Some("rects")}

CallerHeights == {200, 400}

CallerWidths == {600}

\* what _component_func returns: default=None until the frontend has sent a
\* value, then a dict with "raw" and possibly "selectIndex"
RawShapes == {<<>>, <<"rect">>}

ComponentValues ==
    {None}
    \cup {Some([raw |-> r]) : r \in RawShapes}
    \cup {Some([raw |-> r, selectIndex |-> i]) :
              r \in RawShapes, i \in 0..MaxSelectIndex}

\* ------------------------------------------------------------------------
\* State: one call of one of the two functions
\* ------------------------------------------------------------------------
VARIABLES
    fn,                   \* the function called
    pc,                   \* position in its body
    args,                 \* the caller's arguments
    height, width,        \* locals of st_sparrow_labeling
    background_color,
    background_image,
    background_image_url,
    resize_target,        \* (new_height, new_width) given to _resize_img
    canvas_rects,
    kwargs,               \* keyword arguments given to _component_func
    component_value,
    result,               \* the value returned
    raised                \* the exception that ended the call, "" if none

vars == <<fn, pc, args, height, width, background_color, background_image,
          background_image_url, resize_target, canvas_rects, kwargs,
          component_value, result, raised>>

locals == <<height, width, background_color, background_image,
            background_image_url, resize_target, canvas_rects, kwargs,
            component_value>>

InitLocals(h, w, color, image) ==
    /\ height = h
    /\ width = w
    /\ background_color = color
    /\ background_image = image
    /\ background_image_url = None
    /\ resize_target = None
    /\ canvas_rects = None
    /\ kwargs = None
    /\ component_value = None
    /\ result = None
    /\ raised = ""

\* a direct call _image_dimensions_rescale(canvas_width, doc_width, doc_height)
InitRescale ==
    /\ fn = "_image_dimensions_rescale"
    /\ pc = "call"
    /\ args \in [canvas_width : 0..MaxCanvasWidth,
                  doc_width : 0..MaxDocWidth,
                  doc_height : 0..MaxDocHeight]
    /\ InitLocals(None, None, None, None)

\* a call st_sparrow_labeling(...); the arguments the body only passes on
\* keep their defaults
InitLabeling ==
    /\ fn = "st_sparrow_labeling"
    /\ pc = "check_canvas_width"
    /\ args \in [fill_color : {"#eee"},
                  stroke_width : {20},
                  stroke_color : {"black"},
                  background_color : BackgroundColors,
                  background_image : BackgroundImages,
                  update_streamlit : BOOLEAN,
                  height : CallerHeights,
                  width : CallerWidths,
                  drawing_mode : DrawingModes,
                  initial_rects : InitialRects,
                  display_toolbar : {TRUE},
                  point_display_radius : {3},
                  canvas_width : 0..MaxCallDim,
                  doc_height : 0..MaxCallDim,
                  doc_width : 0..MaxCallDim,
                  image_rescale : BOOLEAN,
                  key : {None}]
    /\ InitLocals(args.height, args.width, args.background_color,
                  args.background_image)

Init == InitRescale \/ InitLabeling

\* _image_dimensions_rescale, called directly
RescaleCall ==
    /\ fn = "_image_dimensions_rescale"
    /\ pc = "call"
    /\ \E r \in {_image_dimensions_rescale(args.canvas_width, args.doc_width,
                                             args.doc_height)} :
           /\ pc' = IF r.raised = "" THEN "returned" ELSE "raised"
           /\ raised' = r.raised
           /\ result' = r.value
    /\ UNCHANGED <<fn, args, locals>>

\* the guard testing doc_width instead of canvas_width
ZeroCanvasWidth_doc(image_rescale, canvas_width) ==
    image_rescale = TRUE /\ args.doc_width = 0

\* image_rescale is True and canvas_width == 0
ZeroCanvasWidth(image_rescale, canvas_width) ==
    image_rescale = TRUE /\ canvas_width = 0

\* if image_rescale is True and canvas_width == 0: return
CheckCanvasWidth ==
    /\ fn = "st_sparrow_labeling"
    /\ pc = "check_canvas_width"
    /\ IF ZeroCanvasWidth(args.image_rescale, args.canvas_width)
       THEN pc' = "returned" /\ result' = None
       ELSE pc' = "rescale" /\ UNCHANGED result
    /\ UNCHANGED <<fn, args, locals, raised>>

\* the pair unpacked as width, height
AssignDimensions_swapped(pair) ==
    /\ height' = pair[2]
    /\ width' = pair[1]

\* height, width = <the pair returned>
AssignDimensions(pair) ==
    /\ height' = pair[1]
    /\ width' = pair[2]

\* if image_rescale: height, width = _image_dimensions_rescale(...)
ResolveDimensions ==
    /\ fn = "st_sparrow_labeling"
    /\ pc = "rescale"
    /\ IF args.image_rescale
       THEN \E r \in {_image_dimensions_rescale(args.canvas_width,
                                   args.doc_width, args.doc_height)} :
                IF r.raised = ""
                THEN /\ AssignDimensions(r.value[1])
                     /\ pc' = "background"
                     /\ UNCHANGED raised
                ELSE /\ pc' = "raised"
                     /\ raised' = r.raised
                     /\ UNCHANGED <<height, width>>
       ELSE /\ pc' = "background"
            /\ UNCHANGED <<height, width, raised>>
    /\ UNCHANGED <<fn, args, background_color, background_image,
                   background_image_url, resize_target, canvas_rects, kwargs,
                   component_value, result>>

\* background_color left as the caller gave it
RegisterBackground_keeping_color(url) ==
    /\ background_image_url' = Some(IF url[1] = "/" THEN Tail(url) ELSE url)
    /\ UNCHANGED background_color

\* the URL made relative, then background_color = ""
RegisterBackground(url) ==
    /\ background_image_url' = Some(IF url[1] = "/" THEN Tail(url) ELSE url)
    /\ background_color' = EmptyStr

\* background_image_url = None; if background_image: resize, register,
\* strip the leading "/", clear background_color
ResizeBackground ==
    /\ fn = "st_sparrow_labeling"
    /\ pc = "background"
    /\ IF background_image # None
       THEN \E r \in {_resize_img(background_image[1], height, width)} :
                /\ resize_target' = Some(<<height, width>>)
                /\ IF r.raised = ""
                   THEN /\ background_image' = r.value
                        /\ \E url \in ImageUrls : RegisterBackground(url)
                        /\ pc' = "prepare"
                        /\ UNCHANGED raised
                   ELSE /\ pc' = "raised"
                        /\ raised' = r.raised
                        /\ UNCHANGED <<background_image, background_image_url,
                                       background_color>>
       ELSE /\ background_image_url' = None
            /\ pc' = "prepare"
            /\ UNCHANGED <<background_image, background_color, resize_target,
                           raised>>
    /\ UNCHANGED <<fn, args, height, width, canvas_rects, kwargs,
                   component_value, result>>

\* canvas_rects = data_processor.prepare_canvas_data(...)
PrepareCanvasData ==
    /\ fn = "st_sparrow_labeling"
    /\ pc = "prepare"
    /\ canvas_rects' = Some(prepare_canvas_data(args.initial_rects,
                                background_color, args.doc_height,
                                args.doc_width, height, width))
    /\ pc' = "component"
    /\ UNCHANGED <<fn, args, height, width, background_color,
                   background_image, background_image_url, resize_target,
                   kwargs, component_value, result, raised>>

\* the flag passed on whatever the drawing mode
realtimeUpdateStreamlit_any_mode(update_streamlit, drawing_mode) ==
    update_streamlit

\* update_streamlit and (drawing_mode != "polygon")
realtimeUpdateStreamlit(update_streamlit, drawing_mode) ==
    update_streamlit /\ drawing_mode # "polygon"

\* component_value = _component_func(...)
InvokeComponent ==
    /\ fn = "st_sparrow_labeling"
    /\ pc = "component"
    /\ kwargs' = Some([fillColor |-> args.fill_color,
                       strokeWidth |-> args.stroke_width,
                       strokeColor |-> args.stroke_color,
                       backgroundColor |-> background_color,
                       backgroundImageURL |-> background_image_url,
                       realtimeUpdateStreamlit |->
                           realtimeUpdateStreamlit(args.update_streamlit,
                                                   args.drawing_mode),
                       canvasHeight |-> height,
                       canvasWidth |-> width,
                       drawingMode |-> args.drawing_mode,
                       initialDrawing |-> canvas_rects,
                       displayToolbar |-> args.display_toolbar,
                       displayRadius |-> args.point_display_radius,
                       key |-> args.key,
                       default |-> None])
    /\ component_value' \in ComponentValues
    /\ pc' = "result"
    /\ UNCHANGED <<fn, args, height, width, background_color,
                   background_image, background_image_url, resize_target,
                   canvas_rects, result, raised>>

\* the selection index dropped
current_rect_index_dropped(cv) == None

\* component_value['selectIndex'] if 'selectIndex' in component_value else None
current_rect_index(cv) ==
    IF "selectIndex" \in DOMAIN cv THEN Some(cv.selectIndex) ELSE None

\* if component_value is None: return; else return CanvasResult(...)
ReturnResult ==
    /\ fn = "st_sparrow_labeling"
    /\ pc = "result"
    /\ IF component_value = None
       THEN result' = None
       ELSE LET cv == component_value[1]
                rects == prepare_rect_data(cv.raw, args.initial_rects,
                             args.doc_height, args.doc_width, height, width)
            IN  result' = Some(CanvasResult(rects, current_rect_index(cv)))
    /\ pc' = "returned"
    /\ UNCHANGED <<fn, args, locals, raised>>

Next ==
    \/ RescaleCall
    \/ CheckCanvasWidth
    \/ ResolveDimensions
    \/ ResizeBackground
    \/ PrepareCanvasData
    \/ InvokeComponent
    \/ ReturnResult

Spec == Init /\ [][Next]_vars

\* ------------------------------------------------------------------------
\* Properties
\* ------------------------------------------------------------------------

\* C1: once st_sparrow_labeling has invoked the rendering surface with
\* drawing_mode "polygon", the realtimeUpdateStreamlit it passed is false,
\* whatever update_streamlit the caller supplied.
PolygonNeverRealtime ==
    (fn = "st_sparrow_labeling" /\ kwargs # None
     /\ args.drawing_mode = "polygon")
        => kwargs[1].realtimeUpdateStreamlit = FALSE

PolygonWithUpdateRequested ==
    /\ fn = "st_sparrow_labeling"
    /\ kwargs # None
    /\ args.drawing_mode = "polygon"
    /\ args.update_streamlit

\* C2: once st_sparrow_labeling has invoked the rendering surface, the
\* backgroundColor passed is "" and backgroundImageURL is set when a
\* background image was supplied; without an image backgroundColor is the
\* caller's background_color and backgroundImageURL is None.
BackgroundPrecedence ==
    (fn = "st_sparrow_labeling" /\ kwargs # None)
        => IF args.background_image # None
           THEN /\ kwargs[1].backgroundColor = EmptyStr
                /\ kwargs[1].backgroundImageURL # None
           ELSE /\ kwargs[1].backgroundColor = args.background_color
                /\ kwargs[1].backgroundImageURL = None

ImageOverColor ==
    /\ fn = "st_sparrow_labeling"
    /\ kwargs # None
    /\ args.background_image # None
    /\ args.background_color # EmptyStr

\* C3: for positive arguments _image_dimensions_rescale returns a width
\* equal to canvas_width.
WidthIsCanvasWidth ==
    (fn = "_image_dimensions_rescale" /\ pc = "returned"
     /\ args.canvas_width >= 1 /\ args.doc_width >= 1 /\ args.doc_height >= 1)
        => result[1][2] = args.canvas_width

\* C4 as stated: for positive arguments the height returned is
\* doc_height * canvas_width / doc_width rounded to a nearest integer.
HeightRounded ==
    (fn = "_image_dimensions_rescale" /\ pc = "returned"
     /\ args.canvas_width >= 1 /\ args.doc_width >= 1 /\ args.doc_height >= 1)
        => LET exact == args.doc_height * args.canvas_width
               diff  == result[1][1] * args.doc_width - exact
           IN  2 * diff <= args.doc_width /\ -2 * diff <= args.doc_width

\* C4 as amended: for positive arguments the height returned is the float
\* product truncated: floor(doc_height * canvas_width / doc_width), or one
\* less than that, which happens only when the quotient is an integer.
HeightTruncated ==
    (fn = "_image_dimensions_rescale" /\ pc = "returned"
     /\ args.canvas_width >= 1 /\ args.doc_width >= 1 /\ args.doc_height >= 1)
        => LET exact == args.doc_height * args.canvas_width
               floor == exact \div args.doc_width
           IN  IF exact % args.doc_width = 0
               THEN result[1][1] \in {floor, floor - 1}
               ELSE result[1][1] = floor

\* a quotient whose nearest integer is above its floor
HeightRoundsUp ==
    /\ fn = "_image_dimensions_rescale"
    /\ pc = "returned"
    /\ args.canvas_width >= 1 /\ args.doc_width >= 1 /\ args.doc_height >= 1
    /\ 2 * ((args.doc_height * args.canvas_width) % args.doc_width)
           > args.doc_width

\* C5 as stated: for positive arguments both components returned by
\* _image_dimensions_rescale are at least 1, and so are the canvasHeight and
\* canvasWidth st_sparrow_labeling passes on when image_rescale is true.
DimensionsPositive ==
    /\ (fn = "_image_dimensions_rescale" /\ pc = "returned"
        /\ args.canvas_width >= 1 /\ args.doc_width >= 1
        /\ args.doc_height >= 1)
           => (result[1][1] >= 1 /\ result[1][2] >= 1)
    /\ (fn = "st_sparrow_labeling" /\ kwargs # None /\ args.image_rescale
        /\ args.canvas_width >= 1 /\ args.doc_width >= 1
        /\ args.doc_height >= 1)
           => (kwargs[1].canvasHeight >= 1 /\ kwargs[1].canvasWidth >= 1)

\* C5 as amended: for positive arguments both components are at least 0;
\* the height is 0 when doc_height * canvas_width < doc_width and at least 1
\* when doc_height * canvas_width > doc_width, and the width is at least
\* canvas_width - 1; the same holds of the canvasHeight and canvasWidth
\* passed on when image_rescale is true.
DimensionsNonNegative ==
    LET Bounded(h, w) ==
            /\ h >= 0
            /\ w >= 0
            /\ args.doc_height * args.canvas_width < args.doc_width => h = 0
            /\ args.doc_height * args.canvas_width > args.doc_width => h >= 1
            /\ w >= args.canvas_width - 1
    IN  /\ (fn = "_image_dimensions_rescale" /\ pc = "returned"
            /\ args.canvas_width >= 1 /\ args.doc_width >= 1
            /\ args.doc_height >= 1)
               => Bounded(result[1][1], result[1][2])
        /\ (fn = "st_sparrow_labeling" /\ kwargs # None /\ args.image_rescale
            /\ args.canvas_width >= 1 /\ args.doc_width >= 1
            /\ args.doc_height >= 1)
               => Bounded(kwargs[1].canvasHeight, kwargs[1].canvasWidth)

\* positive arguments rescaled to an empty pair
EmptyDimensions ==
    /\ fn = "_image_dimensions_rescale"
    /\ pc = "returned"
    /\ args.canvas_width >= 1 /\ args.doc_width >= 1 /\ args.doc_height >= 1
    /\ result = Some(<<0, 0>>)

\* C6: a call of st_sparrow_labeling with image_rescale true and
\* canvas_width 0 returns None at its first statement: it never raises and
\* never reaches the rendering surface, whatever the other arguments.
ZeroCanvasWidthReturnsNothing ==
    (fn = "st_sparrow_labeling" /\ args.image_rescale
     /\ args.canvas_width = 0 /\ pc # "check_canvas_width")
        => (pc = "returned" /\ result = None /\ raised = ""
            /\ kwargs = None)

ZeroCanvasWidthReturned ==
    /\ fn = "st_sparrow_labeling"
    /\ pc = "returned"
    /\ args.image_rescale
    /\ args.canvas_width = 0
    /\ args.doc_width = 0
    /\ args.background_image # None

\* C7: _image_dimensions_rescale with doc_width 0 ends in
\* ZeroDivisionError, and st_sparrow_labeling with image_rescale true,
\* canvas_width # 0 and doc_width 0 ends in that error, returning nothing
\* and before the rendering surface is invoked.
DivisionByZeroFatal ==
    /\ (fn = "_image_dimensions_rescale" /\ args.doc_width = 0
        /\ pc # "call")
           => (pc = "raised" /\ raised = "ZeroDivisionError"
               /\ result = None)
    /\ (fn = "st_sparrow_labeling" /\ args.image_rescale
        /\ args.canvas_width # 0 /\ args.doc_width = 0
        /\ pc \notin {"check_canvas_width", "rescale"})
           => (pc = "raised" /\ raised = "ZeroDivisionError"
               /\ result = None /\ kwargs = None
               /\ resize_target = None /\ canvas_rects = None)

DivisionByZeroRaised ==
    /\ fn = "st_sparrow_labeling"
    /\ pc = "raised"
    /\ raised = "ZeroDivisionError"
    /\ args.image_rescale
    /\ args.canvas_width # 0
    /\ args.doc_width = 0
    /\ args.background_image # None

RescaleIdempotent ==
    (fn = "_image_dimensions_rescale" /\ pc = "returned"
     /\ args.canvas_width >= 1 /\ args.doc_width >= 1 /\ args.doc_height >= 1)
        => _image_dimensions_rescale(args.canvas_width, result[1][2],
                                     result[1][1]) = Returns(result[1])

\* C10: in a call of st_sparrow_labeling one pair of dimensions is the
\* target of the background resize, the argument of both DataProcessor
\* conversions and the canvasHeight/canvasWidth passed on; it is the
\* caller's (height, width) when image_rescale is false and the pair
\* _image_dimensions_rescale returns when image_rescale is true.
DimensionsConsistent ==
    fn = "st_sparrow_labeling"
        => LET resolved ==
                   IF args.image_rescale
                   THEN _image_dimensions_rescale(args.canvas_width,
                            args.doc_width, args.doc_height).value[1]
                   ELSE <<args.height, args.width>>
           IN  /\ resize_target # None => resize_target[1] = resolved
               /\ canvas_rects # None
                      => <<canvas_rects[1].of[5], canvas_rects[1].of[6]>>
                             = resolved
               /\ kwargs # None
                      => <<kwargs[1].canvasHeight, kwargs[1].canvasWidth>>
                             = resolved
               /\ result # None
                      => <<result[1].rects_data.of[5],
                           result[1].rects_data.of[6]>> = resolved

RescaledDimensionsUsed ==
    /\ fn = "st_sparrow_labeling"
    /\ pc = "returned"
    /\ args.image_rescale
    /\ resize_target # None
    /\ result # None
    /\ height # width

====
